---- MODULE Spec2Model ----
(***************************************************************************)
(* A model of the `context` package (src/context/__init__.py):             *)
(*   - the call stack of frame objects, ContextObject and the module-level *)
(*     __getattr__ facade that resolves the caller's frame;                *)
(*   - ProgramObject.crash and its recursion on selector 0;                *)
(*   - FunctionProperties.props and its JSON serialisation.                *)
(* Python's None is modelled as 0 where the value is a frame, a line or a  *)
(* sub-object, and as the empty sequence for FrameInfo.code_context.       *)
(* A context is followed only while the frame it wraps is on the stack.    *)
(***************************************************************************)
EXTENDS Integers, Sequences, FiniteSets, TLC

\* ------------------------------------------------------------------ bounds
MaxFrames == 3      \* depth of the call stack
MaxLine == 2        \* lines of a source file
MaxDepth == 4       \* nested crash frames that fit under the recursion limit
SelMargin == 1      \* how far outside 0..10 the selectors tried go
MaxConsts == 2      \* constants in the code object of a function

VARIABLES
    stack,      \* the frame objects of the call stack, outermost first
    ctx,        \* the ContextObject client code holds (NoCtx: none)
    last,       \* what the last operation returned or raised
    sel,        \* crash: the selector of the outermost call
    num,        \* crash: the selector after `num = random.randint(0, 10)`
    limit,      \* crash: how many nested crash frames fit under the recursion limit
    cstack,     \* crash: where each nested crash(0) frame is, "try" or "except"
    inner,        \* crash: what the call made by the innermost frame just did
    fault,      \* crash: how the outermost call ended
    swept,      \* how many selectors a sweep over all of them has tried
    provoked,   \* the fault categories the sweep has provoked
    func,       \* props: the function whose FunctionProperties was read
    out,        \* props: the mapping the props property returned
    result      \* props: what the read gave: "props", "str", or the exception

ctxVars == <<stack, ctx, last>>
crashVars == <<sel, num, limit, cstack, inner, fault>>
sweepVars == <<swept, provoked>>
propsVars == <<func, out, result>>
vars == <<stack, ctx, last, sel, num, limit, cstack, inner, fault, swept, provoked,
          func, out, result>>

None == 0

Min(a, b) == IF a < b THEN a ELSE b
Max(a, b) == IF a > b THEN a ELSE b

\* ------------------------------------------------------------ code objects
\* client code with a source file (test.py's hello), and code compiled from a
\* string (exec/compile), whose filename names no file
CodeHello == [co_name |-> "hello", co_filename |-> "test.py"]
CodeExec == [co_name |-> "<module>", co_filename |-> "<string>"]
CodeGetattr == [co_name |-> "__getattr__", co_filename |-> "context/__init__.py"]
CodeFrameify == [co_name |-> "frameify", co_filename |-> "context/__init__.py"]
ClientCodes == {CodeHello, CodeExec}

\* inspect finds the source lines of a code object through its filename
SourceAvailable(code) == code.co_filename # "<string>"

\* the text of line i of a source file, written as the number i
SourceLines == [i \in 1..MaxLine |-> i]

NoContext == <<>>

\* inspect.getframeinfo(frame, context): the FrameInfo of a frame object.
\* Raises AttributeError on None (frame.f_lineno); callers test f # None first.
getframeinfo(fs, f, context) ==
    LET lineno == fs[f].f_lineno
        start == Max(0, Min(lineno - 1 - (context \div 2), MaxLine - context))
        found == SourceAvailable(fs[f].f_code)
    IN  [filename |-> fs[f].f_code.co_filename,
         lineno |-> lineno,
         function |-> fs[f].f_code.co_name,
         code_context |-> IF found
                          THEN SubSeq(SourceLines, start + 1, Min(start + context, MaxLine))
                          ELSE NoContext,
         index |-> IF found THEN lineno - 1 - start ELSE -1]

\* ContextObject.__init__: the fields of a new instance over frame f (f # None)
ContextObject(fs, f) ==
    [_frame |-> f,
     _info |-> getframeinfo(fs, f, 3),
     _function |-> None,
     _program |-> None]

\* whether ContextObject(frame) raises: inspect.getframeinfo(None, 3) does
ContextObjectRaises(f) == f = None

NoCtx ==
    [_frame |-> None,
     _info |-> [filename |-> "", lineno |-> 0, function |-> "",
                code_context |-> NoContext, index |-> -1],
     _function |-> None,
     _program |-> None]

\* ------------------------------------------------------------- the results
\* op: "facade" (module __getattr__), "ctx" (a property of the held context), "new";
\* frame: the frame wrapped by the context that was read;
\* outcome: "ok" or the exception raised; value / text: what was returned
Result(op, name, frame, outcome, value, text) ==
    [op |-> op, name |-> name, frame |-> frame, outcome |-> outcome,
     value |-> value, text |-> text]

Idle == Result("none", "", 0, "ok", 0, "")

InitCtx ==
    /\ stack = <<>>
    /\ ctx = NoCtx
    /\ last = Idle

\* ------------------------------------------------------- the running program
\* the executing frame (None: no frame, the runtime itself is running)
Top == Len(stack)

\* a call: the runtime pushes a frame whose f_back is the calling frame
Call(code) ==
    /\ Len(stack) < MaxFrames
    /\ stack' = Append(stack, [f_back |-> Top, f_lineno |-> 1, f_code |-> code])
    /\ last' = Idle
    /\ UNCHANGED ctx

\* a return pops the executing frame; a context over it is let go
Return ==
    /\ Top # None
    /\ stack' = SubSeq(stack, 1, Len(stack) - 1)
    /\ ctx' = IF ctx._frame = Top THEN NoCtx ELSE ctx
    /\ last' = Idle

\* the executing frame moves to another line
Step(l) ==
    /\ Top # None
    /\ l # stack[Top].f_lineno
    /\ stack' = [stack EXCEPT ![Top].f_lineno = l]
    /\ last' = Idle
    /\ UNCHANGED ctx

\* ---------------------------------------------------------- ContextObject
\* what a property read gives: the value returned or the exception raised, and
\* the instance after the read (a memoizing property writes to it)
Ret(self, value, text) == [self |-> self, outcome |-> "ok", value |-> value, text |-> text]
Raise(self, exc) == [self |-> self, outcome |-> exc, value |-> None, text |-> ""]

\* lineno served from the FrameInfo made at construction
ContextObject_lineno_Snapshot(fs, self) == Ret(self, self._info.lineno, "")

\* ContextObject.lineno: return self._frame.f_lineno
ContextObject_lineno(fs, self) == Ret(self, fs[self._frame].f_lineno, "")

\* ContextObject.filename: return self._info.filename
ContextObject_filename(fs, self) == Ret(self, None, self._info.filename)

\* sourcelns without its except clause
ContextObject_sourcelns_NoExcept(fs, self) ==
    IF self._info.code_context = NoContext
    THEN Raise(self, "TypeError")
    ELSE Ret(self, self._info.code_context[self._info.index + 1], "")

\* ContextObject.sourcelns:
\*     try: return self._info.code_context[self._info.index]
\*     except TypeError: return None
\* None[None] raises the TypeError; a list indexed past its end raises IndexError
ContextObject_sourcelns(fs, self) ==
    IF self._info.code_context = NoContext
    THEN Ret(self, None, "")
    ELSE IF self._info.index + 1 > Len(self._info.code_context)
         THEN Raise(self, "IndexError")
         ELSE Ret(self, self._info.code_context[self._info.index + 1], "")

\* the identity of a newly made sub-object: one no sub-object of self has
NewObject(self) ==
    CHOOSE i \in 1..3 :
        /\ i \notin {self._function, self._program}
        /\ \A j \in 1..(i - 1) : j \in {self._function, self._program}

\* function without the test of self._function
ContextObject_function_NoMemo(fs, self) ==
    Ret([self EXCEPT !._function = NewObject(self)], NewObject(self), "")

\* ContextObject.function: the FunctionContext, made on the first read. An
\* instance of FunctionContext is truthy, so `if self._function` tests for None.
ContextObject_function(fs, self) ==
    IF self._function # None
    THEN Ret(self, self._function, "")
    ELSE Ret([self EXCEPT !._function = NewObject(self)], NewObject(self), "")

\* ContextObject.program: the ProgramObject, made on the first read
ContextObject_program(fs, self) ==
    IF self._program # None
    THEN Ret(self, self._program, "")
    ELSE Ret([self EXCEPT !._program = NewObject(self)], NewObject(self), "")

\* FunctionContext.source: inspect.getsource(self.code) raises OSError when the
\* source text of the code object cannot be found
FunctionContext_source(fs, f) ==
    IF SourceAvailable(fs[f].f_code) THEN "ok" ELSE "OSError"

\* ctx.function.source: the function property, then source of what it returns
ContextObject_function_source(fs, self) ==
    LET r == ContextObject_function(fs, self)
        src == FunctionContext_source(fs, r.self._frame)
    IN  IF src = "ok" THEN Ret(r.self, None, r.self._info.filename)
        ELSE Raise(r.self, src)

\* prevctx over self._frame instead of self._frame.f_back
ContextObject_prevctx_SameFrame(fs, self) == Ret(self, self._frame, "")

\* ContextObject.prevctx: return ContextObject(self._frame.f_back). The read
\* raises what the constructor raises; value is the frame the new context wraps.
ContextObject_prevctx(fs, self) ==
    LET back == fs[self._frame].f_back
    IN  IF ContextObjectRaises(back)
        THEN Raise(self, "AttributeError")
        ELSE Ret(self, back, "")

Names == {"lineno", "filename", "sourcelns", "prevctx", "function", "program", "source"}

\* getattr(self, name); "source" stands for the chain function.source
Getattr(fs, self, name) ==
    CASE name = "lineno" -> ContextObject_lineno(fs, self)
      [] name = "filename" -> ContextObject_filename(fs, self)
      [] name = "sourcelns" -> ContextObject_sourcelns(fs, self)
      [] name = "prevctx" -> ContextObject_prevctx(fs, self)
      [] name = "function" -> ContextObject_function(fs, self)
      [] name = "program" -> ContextObject_program(fs, self)
      [] name = "source" -> ContextObject_function_source(fs, self)

\* ------------------------------------------------- client code and contexts
\* client code builds a context over a frame of its stack
\* (c = ContextObject(inspect.currentframe()), ContextObject(sys._getframe(n)))
NewContext(f) ==
    /\ f \in 1..Len(stack)
    /\ ctx' = ContextObject(stack, f)
    /\ last' = Result("new", "", f, "ok", f, "")
    /\ UNCHANGED stack

\* client code reads a property of the context it holds; with keep it goes on
\* with the context prevctx returned (c = c.prevctx)
Read(name, keep) ==
    /\ ctx # NoCtx
    /\ LET r == Getattr(stack, ctx, name)
       IN  /\ keep => name = "prevctx" /\ r.outcome = "ok"
           /\ ctx' = IF keep THEN ContextObject(stack, r.value) ELSE r.self
           /\ last' = Result("ctx", name, ctx._frame, r.outcome, r.value, r.text)
    /\ UNCHANGED stack

\* ------------------------------------------------------------- the facade
\* frameify(): return inspect.currentframe().f_back, cur being frameify's own frame
frameify(fs, cur) == fs[cur].f_back

\* the frame walk going one caller too far
FacadeFrame_OneTooFar(fs) ==
    IF Len(fs) = 0 THEN None ELSE fs[Len(fs)].f_back

\* The frame module __getattr__ builds its context on: frameify().f_back, with
\* the frames of __getattr__ and of frameify pushed on the stack fs
FacadeFrame(fs) ==
    LET g == Len(fs) + 1
        h == Len(fs) + 2
        during == fs \o << [f_back |-> Len(fs), f_lineno |-> 1, f_code |-> CodeGetattr],
                           [f_back |-> g, f_lineno |-> 1, f_code |-> CodeFrameify] >>
    IN  during[frameify(during, h)].f_back

FacadeNames == {"lineno", "filename", "sourcelns", "prevctx"}

\* module __getattr__(name): return getattr(ContextObject(frameify().f_back), name),
\* called by the executing frame, or by the runtime itself when no frame is
\* executing (_thread.start_new_thread(context.__getattr__, (name,)))
Facade(name) ==
    /\ LET f == FacadeFrame(stack)
       IN  IF ContextObjectRaises(f)
           THEN last' = Result("facade", name, f, "AttributeError", None, "")
           ELSE LET r == Getattr(stack, ContextObject(stack, f), name)
                IN  last' = Result("facade", name, f, r.outcome, r.value, r.text)
    /\ UNCHANGED <<stack, ctx>>

\* ------------------------------------------------------ ProgramObject.crash
\* the upper end of `0 <= num <= 10` and of random.randint(0, 10)
MaxCrash == 10

\* a selector: None, or an integer
NoSelector == [isNone |-> TRUE, n |-> 0]
Selector(n) == [isNone |-> FALSE, n |-> n]
Selectors == {NoSelector} \cup {Selector(n) : n \in (0 - SelMargin)..(MaxCrash + SelMargin)}

\* the reselection that tests num < 10 in place of num <= 10
Resolve_Below10(s, r) ==
    IF s.isNone \/ ~(0 <= s.n /\ s.n < MaxCrash) THEN r ELSE s.n

\* if (num is None) or (not (0 <= num <= 10)): num = random.randint(0, 10)
\* r is the number randint returns
Resolve(s, r) ==
    IF s.isNone \/ ~(0 <= s.n /\ s.n <= MaxCrash) THEN r ELSE s.n

\* the if / elif chain: what the branch taken for n raises ("recurse": the
\* branch of 0, which calls crash(0) again)
Branch(n) ==
    IF n = 0 THEN "recurse"
    ELSE IF n = 1 THEN "MemoryError"
    ELSE IF n = 2 THEN "ZeroDivisionError"
    ELSE IF n = 3 THEN "NameError"
    ELSE IF n = 4 THEN "AttributeError"
    ELSE IF n = 5 THEN "SyntaxError"
    ELSE IF n = 6 THEN "KeyboardInterrupt"
    ELSE IF n = 7 THEN "TypeError"
    ELSE IF n = 8 THEN "ValueError"
    ELSE IF n = 9 THEN "KeyError"
    ELSE IF n = 10 THEN "OverflowError"
    ELSE "ModuleNotFoundError"

\* the handler that swallows the error: `except RecursionError: return`
OnRecursionError_Swallow(pc) == IF pc = "try" THEN "return" ELSE "propagate"

\* try: self.crash(0)
\* except RecursionError: return self.crash(0)
\* What a crash(0) frame does when the call it made raises RecursionError: in
\* the try block the handler runs and calls again; in the handler nothing
\* catches it
OnRecursionError(pc) == IF pc = "try" THEN "except" ELSE "propagate"

InitCrash ==
    /\ sel = NoSelector
    /\ num = 0
    /\ limit = 1
    /\ cstack = <<>>
    /\ inner = "none"
    /\ fault = "idle"
    /\ swept = 0
    /\ provoked = {}

\* client code calls crash(s) with room for L nested frames under the recursion
\* limit; a selector other than 0 ends the call at once with the branch's fault
CrashCall(s, r, L) ==
    /\ fault # "running"
    /\ sel' = s
    /\ num' = Resolve(s, r)
    /\ limit' = L
    /\ inner' = "none"
    /\ IF Branch(Resolve(s, r)) = "recurse"
       THEN cstack' = <<"try">> /\ fault' = "running"
       ELSE cstack' = <<>> /\ fault' = Branch(Resolve(s, r))

\* the innermost crash(0) frame calls self.crash(0): a new frame, or
\* RecursionError when the stack is at the recursion limit
CrashRecurse ==
    /\ fault = "running" /\ inner = "none"
    /\ IF Len(cstack) < limit
       THEN cstack' = Append(cstack, "try") /\ inner' = "none"
       ELSE cstack' = cstack /\ inner' = "RecursionError"
    /\ UNCHANGED <<sel, num, limit, fault>>

\* the call made by the innermost frame has ended: it raised RecursionError, or
\* it returned, and then the frame returns too (`return self.crash(0)`, or the
\* end of the function after the try statement)
CrashUnwind ==
    /\ fault = "running" /\ inner # "none"
    /\ LET pc == cstack[Len(cstack)]
           does == IF inner = "RecursionError" THEN OnRecursionError(pc) ELSE "return"
           rest == SubSeq(cstack, 1, Len(cstack) - 1)
       IN  IF does = "except"
           THEN /\ cstack' = Append(rest, "except")
                /\ inner' = "none"
                /\ fault' = fault
           ELSE /\ cstack' = rest
                /\ inner' = IF rest = <<>> THEN "none"
                          ELSE IF does = "propagate" THEN "RecursionError" ELSE "returned"
                /\ fault' = IF rest # <<>> THEN fault
                            ELSE IF does = "propagate" THEN "RecursionError" ELSE "returned"
    /\ UNCHANGED <<sel, num, limit>>

\* a sweep: client code calls crash once with every selector, in order, and
\* collects the fault of each call
SweepOrder(i) == IF i = 0 THEN NoSelector ELSE Selector(i - 1 - SelMargin)
SweepLen == 1 + (MaxCrash + 2 * SelMargin + 1)

Collect == provoked' = IF fault' \in {"running", "idle"} THEN provoked
                       ELSE provoked \cup {fault'}

\* ------------------------------------------------------ FunctionProperties
\* A Python value: its type, the items of a tuple or list, the keys and (as
\* items) the values of a dict. Scalars are told apart by type alone.
V(t) == [type |-> t, items |-> <<>>, keys |-> <<>>]
Tuple(items) == [type |-> "tuple", items |-> items, keys |-> <<>>]
List(items) == [type |-> "list", items |-> items, keys |-> <<>>]
Dict(keys, items) == [type |-> "dict", items |-> items, keys |-> keys]
Nothing == V("nothing")

\* what the compiler puts in co_consts: None, numbers, text, bytes literals,
\* tuples of constants, and the code objects of nested functions and lambdas
ConstValues ==
    {V("NoneType"), V("int"), V("str"), V("bytes"), V("code"), Tuple(<<V("int")>>)}

RECURSIVE SeqsUpTo(_, _)
SeqsUpTo(S, n) ==
    IF n = 0 THEN {<<>>}
    ELSE LET shorter == SeqsUpTo(S, n - 1)
         IN  shorter \cup {Append(q, x) : q \in shorter, x \in S}

\* a function: its parameters, the constants of its code, and whether inspect
\* finds its source text
Functions ==
    [params : {<<>>, <<"a">>}, consts : SeqsUpTo(ConstValues, MaxConsts),
     hasSource : BOOLEAN]

\* the entries of CodeType.__dict__: name, and whether the entry is a member or
\* getset descriptor (CODE_OBJ_PROP_TYPES) rather than a method
CodeClassDict ==
    << <<"co_argcount", TRUE>>, <<"co_code", TRUE>>, <<"co_consts", TRUE>>,
       <<"co_filename", TRUE>>, <<"co_firstlineno", TRUE>>, <<"co_name", TRUE>>,
       <<"co_names", TRUE>>, <<"co_varnames", TRUE>>, <<"replace", FALSE>> >>

\* getattr(self.code, name)
CodeAttr(f, name) ==
    CASE name = "co_argcount" -> V("int")
      [] name = "co_code" -> V("bytes")
      [] name = "co_consts" -> Tuple(f.consts)
      [] name = "co_filename" -> V("str")
      [] name = "co_firstlineno" -> V("int")
      [] name = "co_name" -> V("str")
      [] name = "co_names" -> Tuple(<<V("str")>>)
      [] name = "co_varnames" -> Tuple([i \in 1..Len(f.params) |-> V("str")])
      [] OTHER -> V("method")

\* str(x), repr(x)
Str(x) == V("str")

\* list(x): a list of the items of the tuple, each as it is
ToList(x) == List(x.items)

\* the names of CodeClassDict that are descriptors whose value has one of types
CodeNamesOfType(f, types) ==
    LET picked == SelectSeq(CodeClassDict,
                            LAMBDA e : e[2] /\ CodeAttr(f, e[1]).type \in types)
    IN  [i \in 1..Len(picked) |-> picked[i][1]]

\* the "code" entry of props: the tuple fields as lists, the bytes fields as
\* text, the int and str fields as they are
CodeProps(f) ==
    LET tuples == CodeNamesOfType(f, {"tuple"})
        bytes == CodeNamesOfType(f, {"bytes"})
        scalars == CodeNamesOfType(f, {"int", "str"})
    IN  Dict(tuples \o bytes \o scalars,
             [i \in 1..Len(tuples) |-> ToList(CodeAttr(f, tuples[i]))]
             \o [i \in 1..Len(bytes) |-> Str(CodeAttr(f, bytes[i]))]
             \o [i \in 1..Len(scalars) |-> CodeAttr(f, scalars[i])])

\* the "args" entry of props: per parameter its name, the repr of annotation
\* and default, its kind (an IntEnum) and str(arg)
ArgProps(f) ==
    Dict(f.params,
         [i \in 1..Len(f.params) |->
              Dict(<<"name", "annotation", "default", "kind", "decl">>,
                   <<V("str"), Str(V("type")), Str(V("NoneType")), V("int"), Str(V("Parameter"))>>)])

\* FunctionProperties.props: the properties of the class other than props, each
\* through str, with "args" and "code" replaced by the mappings above
props(f) ==
    Dict(<<"name", "signature", "args", "code", "source">>,
         <<Str(V("str")), Str(V("Signature")), ArgProps(f), CodeProps(f), Str(V("str"))>>)

\* json.dumps(x): whether the default encoder accepts x (it raises TypeError on
\* anything but dict, list, tuple, str, int, float, bool and None)
RECURSIVE JsonEncodable(_)
JsonEncodable(x) ==
    IF x.type \in {"str", "int", "float", "bool", "NoneType"} THEN TRUE
    ELSE IF x.type \in {"list", "tuple", "dict"}
         THEN \A i \in 1..Len(x.items) : JsonEncodable(x.items[i])
         ELSE FALSE

InitProps ==
    /\ func = [params |-> <<>>, consts |-> <<>>, hasSource |-> TRUE]
    /\ out = Nothing
    /\ result = "none"

\* client code reads FunctionProperties(f).props; str(self.source) in it raises
\* OSError when inspect.getsource finds no source
ReadProps(f) ==
    /\ func' = f
    /\ IF f.hasSource
       THEN out' = props(f) /\ result' = "props"
       ELSE out' = Nothing /\ result' = "OSError"

\* FunctionProperties.__str__: json.dumps(self.props, indent='\t')
ToStr(f) ==
    /\ func' = f
    /\ out' = Nothing
    /\ result' = IF ~f.hasSource THEN "OSError"
                 ELSE IF JsonEncodable(props(f)) THEN "str" ELSE "TypeError"

\* ---------------------------------------------------------- specifications
Init == InitCtx /\ InitCrash /\ InitProps

\* what the operations on frames and contexts leave alone, and what crash does
CrashIdle == UNCHANGED <<crashVars, sweepVars, propsVars>>
CtxIdle == UNCHANGED <<ctxVars, propsVars>>

\* client code that builds contexts and reads their properties
Next ==
    \/ \E code \in ClientCodes : Call(code) /\ CrashIdle
    \/ Return /\ CrashIdle
    \/ \E l \in 1..MaxLine : Step(l) /\ CrashIdle
    \/ \E f \in 1..MaxFrames : NewContext(f) /\ CrashIdle
    \/ \E name \in Names, keep \in BOOLEAN : Read(name, keep) /\ CrashIdle

Spec == Init /\ [][Next]_vars

\* client code that reads the ambient properties of the module
NextFacade ==
    \/ \E code \in ClientCodes : Call(code) /\ CrashIdle
    \/ Return /\ CrashIdle
    \/ \E l \in 1..MaxLine : Step(l) /\ CrashIdle
    \/ \E name \in FacadeNames : Facade(name) /\ CrashIdle

SpecFacade == Init /\ [][NextFacade]_vars

\* client code that calls crash, any selector at any time; the interpreter
\* keeps running the frames of a call that has not ended
Alone == UNCHANGED <<ctxVars, sweepVars, propsVars>>

NextCrash ==
    \/ \E s \in Selectors, r \in 0..MaxCrash, L \in 1..MaxDepth :
           CrashCall(s, r, L) /\ Alone
    \/ CrashRecurse /\ Alone
    \/ CrashUnwind /\ Alone

\* the interpreter does not stop in the middle of a call
SpecCrash ==
    /\ Init /\ [][NextCrash]_vars
    /\ WF_vars(CrashRecurse /\ Alone) /\ WF_vars(CrashUnwind /\ Alone)

\* client code that sweeps over the selectors
NextSweep ==
    \/ /\ swept < SweepLen
       /\ \E r \in 0..MaxCrash, L \in 1..MaxDepth : CrashCall(SweepOrder(swept), r, L)
       /\ swept' = swept + 1
       /\ Collect /\ CtxIdle
    \/ CrashRecurse /\ swept' = swept /\ Collect /\ CtxIdle
    \/ CrashUnwind /\ swept' = swept /\ Collect /\ CtxIdle

SpecSweep == Init /\ [][NextSweep]_vars

\* client code that extracts and serialises the metadata of functions
NextProps ==
    \/ \E f \in Functions : ReadProps(f) /\ UNCHANGED <<ctxVars, crashVars, sweepVars>>
    \/ \E f \in Functions : ToStr(f) /\ UNCHANGED <<ctxVars, crashVars, sweepVars>>

SpecProps == Init /\ [][NextProps]_vars

\* ------------------------------------------------------------------ claims
\* the number of frames from f down to the outermost frame of the stack
RECURSIVE Depth(_, _)
Depth(fs, f) == IF fs[f].f_back = None THEN 1 ELSE 1 + Depth(fs, fs[f].f_back)

\* C1: every access through the facade made by client code builds its context
\* on the frame that made the access, as it is at that moment: lineno is the
\* line that frame is at, filename the file of its code, whatever calls,
\* returns and earlier accesses came before.
C1_FacadeResolvesCaller ==
    (last.op = "facade" /\ Top # None) =>
        /\ last.frame = Top
        /\ last.name = "lineno" =>
               last.outcome = "ok" /\ last.value = stack[Top].f_lineno
        /\ last.name = "filename" =>
               last.outcome = "ok" /\ last.text = stack[Top].f_code.co_filename

\* an access of lineno from a called function that has moved off its first line
C1_Witness ==
    /\ last.op = "facade" /\ last.name = "lineno"
    /\ Top = 2 /\ last.value = 2 /\ stack[1].f_lineno = 1

\* C6: an access through the facade with no caller frame above __getattr__
\* does not raise.
C6_NoCallerTolerated ==
    (last.op = "facade" /\ Top = None) => last.outcome = "ok"

\* C2: prevctx on a context whose frame has a caller gives a context over
\* exactly that caller, one frame nearer the outermost frame; it fails exactly
\* when the wrapped frame is the outermost one.
C2_PrevctxFailsExactlyAtBase ==
    (last.op = "ctx" /\ last.name = "prevctx") =>
        /\ (last.outcome # "ok") <=> (Depth(stack, last.frame) = 1)
        /\ last.outcome = "ok" =>
               /\ last.value = stack[last.frame].f_back
               /\ Depth(stack, last.value) = Depth(stack, last.frame) - 1
               /\ ctx._frame \in {last.frame, last.value}

\* prevctx fails on a context over the outermost frame while a callee runs
C2_Witness ==
    /\ last.op = "ctx" /\ last.name = "prevctx" /\ last.outcome # "ok"
    /\ Len(stack) >= 2 /\ ctx._frame = 1

\* C7 as stated: function.source, prevctx and sourcelns never raise.
C7_ReadsNeverRaise ==
    (last.op = "ctx" /\ last.name \in {"source", "prevctx", "sourcelns"}) =>
        last.outcome = "ok"

\* C7 as amended: sourcelns never raises, and gives None exactly when the source
\* text is unavailable, else the text of the line of the snapshot; function.source
\* raises exactly when the source text is unavailable, and prevctx raises
\* exactly on the outermost frame.
C7_OnlySourcelnsAbsorbs ==
    last.op = "ctx" =>
        /\ last.name = "sourcelns" =>
               /\ last.outcome = "ok"
               /\ (last.value = None) <=> ~SourceAvailable(stack[last.frame].f_code)
               /\ last.value # None => last.value = SourceLines[ctx._info.lineno]
        /\ last.name = "source" =>
               ((last.outcome = "OSError") <=> ~SourceAvailable(stack[last.frame].f_code))
               /\ last.outcome \in {"ok", "OSError"}
        /\ last.name = "prevctx" =>
               ((last.outcome = "AttributeError") <=> stack[last.frame].f_back = None)
               /\ last.outcome \in {"ok", "AttributeError"}

\* sourcelns read on a context over code compiled from a string
C7_Witness ==
    /\ last.op = "ctx" /\ last.name = "sourcelns" /\ last.value = None
    /\ stack[last.frame].f_code = CodeExec

\* C9 as stated: every read of lineno gives the line of the snapshot taken when
\* the context was built.
C9_LinenoFromSnapshot ==
    (last.op = "ctx" /\ last.name = "lineno") => last.value = ctx._info.lineno

\* C9 as amended: filename is the one of the snapshot; lineno is read from the
\* wrapped frame at every read, so it is the line the frame is at now.
C9_LinenoIsLive ==
    last.op = "ctx" =>
        /\ last.name = "lineno" => last.value = stack[ctx._frame].f_lineno
        /\ last.name = "filename" => last.text = ctx._info.filename

\* lineno read after the wrapped frame left the line it was built at
C9_Witness ==
    /\ last.op = "ctx" /\ last.name = "lineno"
    /\ last.value # ctx._info.lineno

\* C10: on one instance, _function and _program are None until first read, a
\* read of function / program returns the sub-object the instance then holds,
\* and a sub-object once held is never replaced.
C10_SubObjectsMadeOnce ==
    [][ /\ last'.op = "new" => ctx'._function = None /\ ctx'._program = None
        /\ (last'.op = "ctx" /\ ctx'._frame = ctx._frame) =>
               /\ ctx._function # None => ctx'._function = ctx._function
               /\ ctx._program # None => ctx'._program = ctx._program
               /\ last'.name = "function" =>
                      ctx'._function # None /\ last'.value = ctx'._function
               /\ last'.name = "program" =>
                      ctx'._program # None /\ last'.value = ctx'._program
               /\ last'.name \notin {"function", "program", "source"} =>
                      ctx'._function = ctx._function /\ ctx'._program = ctx._program
      ]_ctxVars

\* function read again, after program was made and the frame moved on
C10_Witness ==
    /\ last.op = "ctx" /\ last.name = "function"
    /\ ctx._function = 2 /\ ctx._program = 1
    /\ stack[ctx._frame].f_lineno # ctx._info.lineno

\* the twelve fault categories of the crash selectors, in the order in which
\* the selectors 0..10 and the else branch provoke them
Categories ==
    << "RecursionError", "MemoryError", "ZeroDivisionError", "NameError",
       "AttributeError", "SyntaxError", "KeyboardInterrupt", "TypeError",
       "ValueError", "KeyError", "OverflowError", "ModuleNotFoundError" >>

CrashEnded == fault \notin {"idle", "running"}

C4_SelectorDecidesFault ==
    (CrashEnded /\ ~sel.isNone /\ sel.n \in 0..10) =>
        /\ num = sel.n
        /\ fault = Categories[sel.n + 1]
        /\ sel.n = 2 => fault = "ZeroDivisionError"
        /\ sel.n = 6 => fault = "KeyboardInterrupt"
        /\ sel.n # 0 => fault # "returned"

\* crash(10), the last selector of the range, has raised
C4_Witness ==
    CrashEnded /\ ~sel.isNone /\ sel.n = 10 /\ fault = "OverflowError"

\* C8: once crash has been called with every selector (absent, out of range on
\* both sides, and each of 0..10), every one of the twelve categories has been
\* provoked.
C8_AllCategoriesProvoked ==
    (swept = SweepLen /\ CrashEnded) =>
        \A i \in 1..Len(Categories) : Categories[i] \in provoked

\* C5: the mapping props returns holds only values json.dumps accepts, at
\* every depth, and __str__ never fails to serialise it.
C5_PropsSerialisable ==
    /\ result = "props" => JsonEncodable(out)
    /\ result # "TypeError"

====
